---- MODULE Spec2Model ----
(***************************************************************************)
(* Model of cors-headers (src/src/cors.ts): cors(req, options) computes    *)
(* the CORS response headers of one request.                               *)
(*                                                                         *)
(* JavaScript values are tagged records.  A string is a sequence of        *)
(* indivisible tokens (origins are made of one-character tokens, so that   *)
(* a regular expression can be matched position by position).  The only    *)
(* state that outlives a call is the caller's options object, including    *)
(* the lastIndex of every RegExp it holds.                                 *)
(***************************************************************************)
EXTENDS Integers, Sequences, FiniteSets, TLC

\* Longest origin list the caller configures.
MaxListLen == 2

----------------------------------------------------------------------------
\* JavaScript values

Undefined == [t |-> "undefined"]
Null == [t |-> "null"]
Bool(b) == [t |-> "bool", v |-> b]
Str(s) == [t |-> "str", v |-> s]
Num(n) == [t |-> "num", v |-> n]
Arr(items) == [t |-> "arr", v |-> items]
\* A RegExp object: its source is a literal, global is the g flag, lastIndex
\* is the object's mutable match position (0-based).
RegExp(source, global, lastIndex) ==
    [t |-> "re", source |-> source, global |-> global, lastIndex |-> lastIndex]
\* A callback without side effects: ret maps its argument to its result.
Fn(ret) == [t |-> "fn", ret |-> ret]

\* JavaScript truthiness (the conditions `if (x)`, `!x`, `x ? a : b`).
Truthy(x) ==
    CASE x.t = "undefined" -> FALSE
      [] x.t = "null" -> FALSE
      [] x.t = "bool" -> x.v
      [] x.t = "str" -> x.v # <<>>
      [] x.t = "num" -> x.v # 0
      [] OTHER -> TRUE

Digit(d) ==
    CASE d = 0 -> "0" [] d = 1 -> "1" [] d = 2 -> "2" [] d = 3 -> "3"
      [] d = 4 -> "4" [] d = 5 -> "5" [] d = 6 -> "6" [] d = 7 -> "7"
      [] d = 8 -> "8" [] d = 9 -> "9"

RECURSIVE Decimal(_)
\* The decimal digits of a natural number.
Decimal(n) == IF n < 10 THEN <<Digit(n)>> ELSE Decimal(n \div 10) \o <<Digit(n % 10)>>

\* String(x) of a string, boolean or natural number, as a token sequence.
StringOf(x) ==
    CASE x.t = "str" -> x.v
      [] x.t = "bool" -> IF x.v THEN <<"true">> ELSE <<"false">>
      [] x.t = "num" -> Decimal(x.v)

RECURSIVE Join(_)
\* Array.prototype.join(",") of a sequence of strings.
Join(items) ==
    IF items = <<>> THEN <<>>
    ELSE IF Len(items) = 1 THEN items[1].v
    ELSE items[1].v \o <<",">> \o Join(Tail(items))

\* options.<field>: undefined when the object has no such property.
Get(obj, field) == IF field \in DOMAIN obj THEN obj[field] ELSE Undefined

\* { ...a, ...b }: a new object, b's properties winning.
Spread(a, b) ==
    [k \in DOMAIN a \cup DOMAIN b |-> IF k \in DOMAIN b THEN b[k] ELSE a[k]]

\* Mutant of defaults: the default origin rule reflects the request's origin.
defaultsReflectOrigin ==
    [origin |-> Bool(TRUE),
     allowedMethods |->
        Str(<<"GET", ",", "HEAD", ",", "PUT", ",", "PATCH", ",", "POST", ",", "DELETE">>),
     credentials |-> Bool(FALSE)]

\* The module's default options.
defaults ==
    [origin |-> Str(<<"*">>),
     allowedMethods |->
        Str(<<"GET", ",", "HEAD", ",", "PUT", ",", "PATCH", ",", "POST", ",", "DELETE">>),
     credentials |-> Bool(FALSE)]

isString(s) == s.t = "str"

----------------------------------------------------------------------------
\* RegExp.prototype.test for a literal source

\* Whether source occurs in str at 0-based position i.
MatchAt(source, str, i) ==
    /\ i + Len(source) <= Len(str)
    /\ \A k \in 1..Len(source) : str[i + k] = source[k]

\* The 0-based positions >= from at which source occurs in str.
Matches(source, str, from) == {i \in from..Len(str) : MatchAt(source, str, i)}

Min(S) == CHOOSE x \in S : \A y \in S : x <= y

\* re.test(str): the search starts at lastIndex when re is global, at 0
\* otherwise; a global RegExp is left with lastIndex after the match, or 0
\* when there is none.  [ok, re] is the answer and the object afterwards.
Test(re, str) ==
    LET from == IF re.global THEN re.lastIndex ELSE 0
        found == IF from > Len(str) THEN {} ELSE Matches(re.source, str, from)
    IN  IF found = {}
        THEN [ok |-> FALSE, re |-> IF re.global THEN [re EXCEPT !.lastIndex = 0] ELSE re]
        ELSE [ok |-> TRUE,
              re |-> IF re.global
                     THEN [re EXCEPT !.lastIndex = Min(found) + Len(re.source)]
                     ELSE re]

----------------------------------------------------------------------------
\* The origin matcher

RECURSIVE isOriginAllowed(_, _), AllowedFrom(_, _, _)
\* The loop of isOriginAllowed over an array, from index i (1-based): it
\* returns at the first item that allows origin, leaving the later items
\* untouched.
AllowedFrom(origin, items, i) ==
    IF i > Len(items) THEN [ok |-> FALSE, items |-> items]
    ELSE LET r == isOriginAllowed(origin, items[i])
             tested == [items EXCEPT ![i] = r.rule]
         IN  IF r.ok THEN [ok |-> TRUE, items |-> tested]
             ELSE AllowedFrom(origin, tested, i + 1)

\* Mutant of isOriginAllowed: a "*" string allows every origin.
isOriginAllowedStarWildcard(origin, allowedOrigin) ==
    IF allowedOrigin.t = "arr"
    THEN LET r == AllowedFrom(origin, allowedOrigin.v, 1)
         IN  [ok |-> r.ok, rule |-> Arr(r.items)]
    ELSE IF isString(allowedOrigin)
    THEN [ok |-> allowedOrigin.v = <<"*">> \/ origin = allowedOrigin.v,
          rule |-> allowedOrigin]
    ELSE IF allowedOrigin.t = "re"
    THEN LET r == Test(allowedOrigin, origin)
         IN  [ok |-> r.ok, rule |-> r.re]
    ELSE [ok |-> Truthy(allowedOrigin), rule |-> allowedOrigin]

\* isOriginAllowed(origin, allowedOrigin): [ok, rule] is the answer and
\* allowedOrigin afterwards (the RegExp objects it holds were tested).
isOriginAllowed(origin, allowedOrigin) ==
    IF allowedOrigin.t = "arr"
    THEN LET r == AllowedFrom(origin, allowedOrigin.v, 1)
         IN  [ok |-> r.ok, rule |-> Arr(r.items)]
    ELSE IF isString(allowedOrigin)
    THEN [ok |-> origin = allowedOrigin.v, rule |-> allowedOrigin]
    ELSE IF allowedOrigin.t = "re"
    THEN LET r == Test(allowedOrigin, origin)
         IN  [ok |-> r.ok, rule |-> r.re]
    ELSE [ok |-> Truthy(allowedOrigin), rule |-> allowedOrigin]

----------------------------------------------------------------------------
\* Requests, header directives and the output Headers object

\* A request: its method (a sequence of characters) and the two request
\* headers cors() reads, each Null when absent (Headers.get).
Request(method, origin, acrh) == [method |-> method, origin |-> origin, acrh |-> acrh]

\* One character of String.prototype.toUpperCase.
UpperChar(c) ==
    CASE c = "o" -> "O" [] c = "p" -> "P" [] c = "t" -> "T" [] c = "i" -> "I"
      [] c = "n" -> "N" [] c = "s" -> "S" [] c = "g" -> "G" [] c = "e" -> "E"
      [] OTHER -> c

toUpperCase(m) == [i \in DOMAIN m |-> UpperChar(m[i])]

OPTIONS == <<"O", "P", "T", "I", "O", "N", "S">>

\* { key, value }
HeaderObj(key, value) == [t |-> "hdr", key |-> key, value |-> value]

\* new Headers(): no entries. A Headers object maps a name to its value.
NewHeaders == [k \in {} |-> <<>>]

\* Headers.prototype.set: replaces the value of name.
HeadersSet(headers, name, value) ==
    [k \in DOMAIN headers \cup {name} |-> IF k = name THEN value ELSE headers[k]]

\* Mutant of HeadersAppend: the new value replaces the old one.
HeadersAppendReplaces(headers, name, value) == HeadersSet(headers, name, value)

\* Headers.prototype.append: a name that already has a value gets the new one
\* after a comma and a space.
HeadersAppend(headers, name, value) ==
    IF name \in DOMAIN headers
    THEN [headers EXCEPT ![name] = headers[name] \o <<", ">> \o value]
    ELSE HeadersSet(headers, name, value)

----------------------------------------------------------------------------
\* The header builder

\* Mutant of configureOrigin: no branch for a fixed origin, a string rule is
\* matched against the request's origin like a list item.
configureOriginNoFixed(options, req) ==
    LET requestOrigin == req.origin
        optsOrigin == Get(options, "origin")
    IN  IF ~Truthy(optsOrigin) \/ optsOrigin = Str(<<"*">>)
        THEN [headers |-> <<HeaderObj("Access-Control-Allow-Origin", Str(<<"*">>))>>,
              rule |-> optsOrigin]
        ELSE LET r == IF Truthy(requestOrigin)
                      THEN isOriginAllowed(requestOrigin.v, optsOrigin)
                      ELSE [ok |-> FALSE, rule |-> optsOrigin]
             IN  [headers |->
                    <<HeaderObj("Access-Control-Allow-Origin",
                                IF r.ok THEN requestOrigin ELSE Bool(FALSE)),
                      HeaderObj("Vary", Str(<<"Origin">>))>>,
                  rule |-> r.rule]

\* configureOrigin(options, req): [headers, rule] is the directive list and
\* options.origin afterwards.
configureOrigin(options, req) ==
    LET requestOrigin == req.origin
        optsOrigin == Get(options, "origin")
    IN  IF ~Truthy(optsOrigin) \/ optsOrigin = Str(<<"*">>)
        THEN [headers |-> <<HeaderObj("Access-Control-Allow-Origin", Str(<<"*">>))>>,
              rule |-> optsOrigin]
        ELSE IF isString(optsOrigin)
        THEN [headers |-> <<HeaderObj("Access-Control-Allow-Origin", optsOrigin),
                            HeaderObj("Vary", Str(<<"Origin">>))>>,
              rule |-> optsOrigin]
        ELSE LET r == IF Truthy(requestOrigin)
                      THEN isOriginAllowed(requestOrigin.v, optsOrigin)
                      ELSE [ok |-> FALSE, rule |-> optsOrigin]
             IN  [headers |->
                    <<HeaderObj("Access-Control-Allow-Origin",
                                IF r.ok THEN requestOrigin ELSE Bool(FALSE)),
                      HeaderObj("Vary", Str(<<"Origin">>))>>,
                  rule |-> r.rule]

\* `if (Array.isArray(x)) x = x.join(",")`
Joined(x) == IF x.t = "arr" THEN Str(Join(x.v)) ELSE x

configureMethods(options) ==
    LET methods == Joined(Get(options, "allowedMethods"))
    IN  IF Truthy(methods)
        THEN HeaderObj("Access-Control-Allow-Methods", methods)
        ELSE Undefined

configureCredentials(options) ==
    IF Truthy(Get(options, "credentials"))
    THEN HeaderObj("Access-Control-Allow-Credentials", Bool(TRUE))
    ELSE Undefined

\* Mutant of configureAllowedHeaders: reflected headers add no Vary entry.
configureAllowedHeadersNoVary(options, req) ==
    LET configured == Joined(Get(options, "allowedHeaders"))
        allowedHeaders == IF ~Truthy(configured) THEN req.acrh ELSE configured
    IN  IF Truthy(allowedHeaders)
        THEN <<HeaderObj("Access-Control-Allow-Headers", allowedHeaders)>>
        ELSE <<>>

\* Mutant of configureAllowedHeaders: the request's headers are reflected
\* only when allowedHeaders is undefined, not when it is empty.
configureAllowedHeadersUnsetOnly(options, req) ==
    LET configured == Joined(Get(options, "allowedHeaders"))
        reflect == configured = Undefined
        allowedHeaders == IF reflect THEN req.acrh ELSE configured
    IN  (IF reflect /\ Truthy(allowedHeaders)
         THEN <<HeaderObj("Vary", Str(<<"Access-Control-Request-Headers">>))>>
         ELSE <<>>)
        \o
        (IF Truthy(allowedHeaders)
         THEN <<HeaderObj("Access-Control-Allow-Headers", allowedHeaders)>>
         ELSE <<>>)

configureAllowedHeaders(options, req) ==
    LET configured == Joined(Get(options, "allowedHeaders"))
        reflect == ~Truthy(configured)
        allowedHeaders == IF reflect THEN req.acrh ELSE configured
    IN  (IF reflect /\ Truthy(allowedHeaders)
         THEN <<HeaderObj("Vary", Str(<<"Access-Control-Request-Headers">>))>>
         ELSE <<>>)
        \o
        (IF Truthy(allowedHeaders)
         THEN <<HeaderObj("Access-Control-Allow-Headers", allowedHeaders)>>
         ELSE <<>>)

configureExposedHeaders(options) ==
    LET exposeHeaders == Joined(Get(options, "exposedHeaders"))
    IN  IF Truthy(exposeHeaders)
        THEN HeaderObj("Access-Control-Expose-Headers", exposeHeaders)
        ELSE Undefined

\* Mutant of configureMaxAge: maxAge is tested for truthiness, not for its
\* type.
configureMaxAgeIfTruthy(options) ==
    LET o == Get(options, "maxAge")
    IN  IF Truthy(o)
        THEN HeaderObj("Access-Control-Max-Age", Str(StringOf(o)))
        ELSE Undefined

configureMaxAge(options) ==
    LET o == Get(options, "maxAge")
        maxAge == IF o.t = "num" THEN Str(StringOf(o)) ELSE Null
    IN  IF Truthy(maxAge)
        THEN HeaderObj("Access-Control-Max-Age", maxAge)
        ELSE Undefined

----------------------------------------------------------------------------
\* The header applier

RECURSIVE applyHeaders(_, _)
\* applyHeaders(headersArr, headers): headers after every directive of
\* headersArr (a sequence of undefined, directives and arrays of them).
applyHeaders(headersArr, headers) ==
    IF headersArr = <<>> THEN headers
    ELSE LET header == Head(headersArr)
             applied ==
                IF ~Truthy(header) THEN headers
                ELSE IF header.t = "arr" THEN applyHeaders(header.v, headers)
                ELSE IF header.key = "Vary" /\ Truthy(header.value)
                THEN HeadersAppend(headers, header.key, StringOf(header.value))
                ELSE IF Truthy(header.value)
                THEN HeadersSet(headers, header.key, StringOf(header.value))
                ELSE headers
         IN  applyHeaders(Tail(headersArr), applied)

----------------------------------------------------------------------------
\* cors(req, options)

\* A plain options object with the given properties.
Obj(props) == [t |-> "obj", props |-> props]

\* Mutant of mergeOptions: the spreads are in the wrong order, the defaults
\* win over the caller's fields.
mergeOptionsDefaultsWin(options, reqOrigin) ==
    IF options.t = "fn"
    THEN Spread(options.ret[reqOrigin], defaults)
    ELSE Spread(options.props, defaults)

\* corsOptions after the merge of the defaults and the caller's options
\* (the result of the options callback when options is a function).
mergeOptions(options, reqOrigin) ==
    LET corsOptions == Spread(defaults, [k \in {} |-> Undefined])
    IN  IF options.t = "fn"
        THEN Spread(corsOptions, options.ret[reqOrigin])
        ELSE Spread(corsOptions, options.props)

\* Mutant of isNestedCallback: the result of the origin callback is not
\* checked.
isNestedCallbackUnchecked(originCallbackResult) == FALSE

\* Whether the origin callback's result is rejected.
isNestedCallback(originCallbackResult) == originCallbackResult.t = "fn"

\* The origin callback, when corsOptions.origin is one: [threw, corsOptions].
resolveOrigin(corsOptions, reqOrigin) ==
    IF corsOptions.origin.t = "fn"
    THEN LET originCallbackResult == corsOptions.origin.ret[reqOrigin]
         IN  IF isNestedCallback(originCallbackResult)
             THEN [threw |-> TRUE, corsOptions |-> corsOptions]
             ELSE [threw |-> FALSE,
                   corsOptions |-> [corsOptions EXCEPT !.origin = originCallbackResult]]
    ELSE [threw |-> FALSE, corsOptions |-> corsOptions]

\* Mutant of corsEnabled: the test is for a defined origin, not a truthy one.
corsEnabledIfDefined(corsOptions) == corsOptions.origin # Undefined

\* `if (corsOptions.origin)`
corsEnabled(corsOptions) == Truthy(corsOptions.origin)

\* Mutant of isPreflight: the method is compared as given.
isPreflightCaseSensitive(req) == req.method = OPTIONS

\* `method === "OPTIONS"`, method being req.method.toUpperCase()
isPreflight(req) == toUpperCase(req.method) = OPTIONS

\* headersArr of a preflight response, given configureOrigin's directives.
preflightHeaders(corsOptions, req, originHeaders) ==
    <<Arr(originHeaders),
      configureCredentials(corsOptions),
      configureMethods(corsOptions),
      Arr(configureAllowedHeaders(corsOptions, req)),
      configureMaxAge(corsOptions),
      configureExposedHeaders(corsOptions),
      HeaderObj("Content-Length", Str(<<"0">>))>>

\* headersArr of an actual response.
actualHeaders(corsOptions, req, originHeaders) ==
    <<Arr(originHeaders),
      configureCredentials(corsOptions),
      configureExposedHeaders(corsOptions)>>

\* The callbacks cors() invokes, in order, each with its argument.
Invocations(options, merged, reqOrigin) ==
    (IF options.t = "fn" THEN <<[cb |-> "options", arg |-> reqOrigin]>> ELSE <<>>)
    \o (IF merged.origin.t = "fn" THEN <<[cb |-> "origin", arg |-> reqOrigin]>> ELSE <<>>)

\* Whether corsOptions.origin is the very object the caller's options hold
\* (a shallow copy shares its property values).
sharesOrigin(options) ==
    /\ options.t = "obj"
    /\ "origin" \in DOMAIN options.props
    /\ options.props.origin.t # "fn"

\* cors(req, options): out is the returned { headers } or the thrown error,
\* options is the caller's options object afterwards, invoked the callbacks
\* called.
cors(req, options) ==
    LET reqOrigin == req.origin
        merged == mergeOptions(options, reqOrigin)
        resolved == resolveOrigin(merged, reqOrigin)
        corsOptions == resolved.corsOptions
        invoked == Invocations(options, merged, reqOrigin)
    IN  IF resolved.threw
        THEN [out |-> [kind |-> "error"], options |-> options, invoked |-> invoked]
        ELSE IF corsEnabled(corsOptions)
        THEN LET o == configureOrigin(corsOptions, req)
                 headersArr == IF isPreflight(req)
                               THEN preflightHeaders(corsOptions, req, o.headers)
                               ELSE actualHeaders(corsOptions, req, o.headers)
             IN  [out |-> [kind |-> "ok", headers |-> applyHeaders(headersArr, NewHeaders)],
                  options |-> IF sharesOrigin(options)
                              THEN [options EXCEPT !.props.origin = o.rule]
                              ELSE options,
                  invoked |-> invoked]
        ELSE [out |-> [kind |-> "ok", headers |-> applyHeaders(<<>>, NewHeaders)],
              options |-> options, invoked |-> invoked]

----------------------------------------------------------------------------
\* The inputs of the model

GET == <<"G", "E", "T">>
Methods == {GET, OPTIONS, <<"o", "p", "t", "i", "o", "n", "s">>}

\* req.headers.get("origin"): absent, empty, or an origin.
ReqOrigins ==
    {Null, Str(<<>>), Str(<<"a">>), Str(<<"a", "b">>), Str(<<"*">>)}

\* req.headers.get("access-control-request-headers")
ReqHeaders == {Null, Str(<<>>), Str(<<"X-Header-1", ",", "X-Header-2">>)}

Requests ==
    {Request(m, o, h) : m \in Methods, o \in ReqOrigins, h \in ReqHeaders}

\* The sequences over S of length at most n.
SeqsUpTo(S, n) == UNION {[1..k -> S] : k \in 0..n}

FixedOrigins == {Str(<<>>), Str(<<"*">>), Str(<<"a">>), Str(<<"c">>)}
Patterns == {RegExp(<<"a">>, FALSE, 0), RegExp(<<"a">>, TRUE, 0), RegExp(<<"b">>, TRUE, 0)}
ListItems == {Str(<<"a">>), Str(<<"*">>), RegExp(<<"b">>, TRUE, 0)}
Lists ==
    {Arr(l) : l \in SeqsUpTo(ListItems, MaxListLen)}
    \cup {Arr(<<Arr(<<RegExp(<<"a">>, TRUE, 0)>>), Str(<<"c">>)>>)}

\* Origin callbacks: constant ones, and one that decides on the request's
\* origin.
OriginCallbacks ==
    {Fn([o \in ReqOrigins |-> v]) :
        v \in {Bool(FALSE), Bool(TRUE), Str(<<"c">>), RegExp(<<"a">>, TRUE, 0),
               Arr(<<Str(<<"a">>)>>), Fn([o2 \in ReqOrigins |-> Bool(TRUE)])}}
    \cup {Fn([o \in ReqOrigins |-> Bool(o = Str(<<"a">>))])}

StaticOrigins == {Bool(FALSE), Bool(TRUE)} \cup FixedOrigins \cup Patterns \cup Lists
OriginValues == StaticOrigins \cup OriginCallbacks
FewOrigins == {Undefined, Bool(FALSE), Str(<<>>), Str(<<"c">>)}

\* An object with the properties of fields whose value is given (not Undefined).
Props(fields) ==
    [k \in {f \in DOMAIN fields : fields[f] # Undefined} |-> fields[k]]

MethodValues == {Undefined, Arr(<<>>), Arr(<<Str(<<"FOO">>), Str(<<"bar">>)>>)}
HeaderValues ==
    {Undefined, Arr(<<>>), Str(<<>>), Arr(<<Str(<<"FIZZ">>), Str(<<"buzz">>)>>)}
ExposedValues == {Undefined, Arr(<<Str(<<"e1">>), Str(<<"e2">>)>>)}
CredentialValues == {Undefined, Bool(TRUE)}
MaxAgeValues == {Undefined, Num(0), Num(12)}

\* The options objects of the model: every origin rule with a few settings
\* of the other fields, and a few origin rules with every setting of them.
StaticOptions ==
    {Obj(Props([origin |-> o, allowedMethods |-> m, allowedHeaders |-> h,
                exposedHeaders |-> Undefined, credentials |-> c, maxAge |-> Undefined])) :
        o \in OriginValues \cup {Undefined},
        m \in {Undefined},
        h \in {Undefined, Arr(<<>>)},
        c \in CredentialValues}
    \cup
    {Obj(Props([origin |-> o, allowedMethods |-> m, allowedHeaders |-> h,
                exposedHeaders |-> e, credentials |-> c, maxAge |-> a])) :
        o \in FewOrigins,
        m \in MethodValues, h \in HeaderValues, e \in ExposedValues,
        c \in CredentialValues, a \in MaxAgeValues}

\* Options callbacks.
OptionsCallbacks ==
    {Fn([o \in ReqOrigins |->
            IF o = Str(<<"a">>)
            THEN [origin |-> Bool(TRUE), maxAge |-> Num(12)]
            ELSE [origin |-> Bool(FALSE)]]),
     Fn([o \in ReqOrigins |-> [k \in {} |-> Undefined]]),
     Fn([o \in ReqOrigins |->
            [origin |-> Bool(FALSE), credentials |-> Bool(TRUE), maxAge |-> Num(12),
             allowedMethods |-> Arr(<<Str(<<"FOO">>)>>)]]),
     Fn([o \in ReqOrigins |-> [origin |-> Bool(TRUE), maxAge |-> Null]]),
     Fn([o \in ReqOrigins |->
            [origin |-> Fn([o2 \in ReqOrigins |-> Bool(o2 = Str(<<"a">>))]),
             credentials |-> Bool(TRUE)]]),
     Fn([o \in ReqOrigins |->
            [origin |-> Fn([o2 \in ReqOrigins |-> Fn([o3 \in ReqOrigins |-> Bool(TRUE)])])]])}

Options == StaticOptions \cup OptionsCallbacks

----------------------------------------------------------------------------
\* The caller: it holds one options value and calls cors() with it, request
\* after request.

VARIABLES
    options,   \* the caller's options value, as it is now
    req,       \* the request of the last call
    res,       \* the outcome of the last call
    invoked    \* the callbacks the last call invoked, in order

vars == <<options, req, res, invoked>>

NoRequest == Request(<<>>, Null, Null)
NoResult == [kind |-> "none"]

Init ==
    /\ options \in Options
    /\ req = NoRequest
    /\ res = NoResult
    /\ invoked = <<>>

\* cors(r, options) with a request r.
Call(r) ==
    LET c == cors(r, options)
    IN  /\ options' = c.options
        /\ req' = r
        /\ res' = c.out
        /\ invoked' = c.invoked

Next == \E r \in Requests : Call(r)

Spec == Init /\ [][Next]_vars

----------------------------------------------------------------------------
\* What the properties speak of, read off the state after a call

Called == res # NoResult
\* Whether the last request's method is OPTIONS, compared case-insensitively.
Preflight == toUpperCase(req.method) = OPTIONS
Returned == Called /\ res.kind = "ok"
Threw == Called /\ res.kind = "error"

\* The merged options of the last call and its resolved origin rule.
Merged == mergeOptions(options, req.origin)
OriginCallbackResult == Merged.origin.ret[req.origin]
NestedCallback == Merged.origin.t = "fn" /\ OriginCallbackResult.t = "fn"
Rule == IF Merged.origin.t = "fn" THEN OriginCallbackResult ELSE Merged.origin

Has(name) == Returned /\ name \in DOMAIN res.headers
IsHeader(name, value) == Has(name) /\ res.headers[name] = value
\* Whether the Vary value lists entry.
VaryHas(entry) == Has("Vary") /\ \E i \in DOMAIN res.headers["Vary"] : res.headers["Vary"][i] = entry

ACAO == "Access-Control-Allow-Origin"
ACAM == "Access-Control-Allow-Methods"
ACAH == "Access-Control-Allow-Headers"
ACMA == "Access-Control-Max-Age"
ACRH == "Access-Control-Request-Headers"

RECURSIVE Allows(_, _)
\* Whether an origin rule allows origin o, by the documented matching: true
\* allows all, a string allows itself, a pattern what it matches, a list
\* what one of its items allows.
Allows(rule, o) ==
    CASE rule.t = "bool" -> rule.v
      [] rule.t = "str" -> o = rule.v
      [] rule.t = "re" -> \E i \in 0..Len(o) : MatchAt(rule.source, o, i)
      [] rule.t = "arr" -> \E i \in DOMAIN rule.v : Allows(rule.v[i], o)

Reflecting == Rule = Bool(TRUE) \/ Rule.t = "re" \/ Rule.t = "arr"

----------------------------------------------------------------------------
\* C1: whenever the resolved origin rule is false, cors() returns an empty
\* header collection, whatever the method and the other options.
C1_FalseOriginNoHeaders ==
    (Called /\ ~NestedCallback /\ Rule = Bool(FALSE)) =>
        (Returned /\ DOMAIN res.headers = {})

\* A preflight with credentials on whose origin callback returned false.
C1_Witness ==
    /\ Called /\ Preflight
    /\ Merged.origin.t = "fn" /\ Rule = Bool(FALSE)
    /\ Get(Merged, "credentials") = Bool(TRUE)
    /\ Truthy(req.acrh)

\* C2: under a rule of true, a pattern or a list, Access-Control-Allow-Origin
\* is the request's Origin value iff that value is present and allowed, is
\* absent otherwise, and Vary lists Origin either way.  (An empty Origin
\* value counts as absent here, as it does at cors.ts:43.)
C2_ReflectedIffAllowed ==
    (Called /\ ~NestedCallback /\ Reflecting) =>
        /\ Returned
        /\ IF Truthy(req.origin) /\ Allows(Rule, req.origin.v)
           THEN IsHeader(ACAO, req.origin.v)
           ELSE ~Has(ACAO)
        /\ VaryHas("Origin")

\* C3 as stated: a fixed origin s other than "*", the empty string
\* included, always yields Access-Control-Allow-Origin: s and Vary: Origin.
C3_FixedOriginAnyString ==
    (Called /\ Rule.t = "str" /\ Rule # Str(<<"*">>)) =>
        (IsHeader(ACAO, Rule.v) /\ VaryHas("Origin"))

\* C3, amended: a non-empty fixed origin s other than "*" always yields
\* Access-Control-Allow-Origin: s and Vary: Origin, whatever the request.
C3_FixedOriginNonEmpty ==
    (Called /\ Rule.t = "str" /\ Rule # Str(<<"*">>) /\ Rule # Str(<<>>)) =>
        (IsHeader(ACAO, Rule.v) /\ VaryHas("Origin"))

\* A fixed origin answered to a request from another origin.
C3_Witness ==
    /\ Called /\ Rule = Str(<<"c">>)
    /\ req.origin = Str(<<"a">>)
    /\ IsHeader(ACAO, <<"c">>)

\* C4 as stated: without an Origin header and without options, the result
\* has Access-Control-Allow-Origin: * and no Vary header.
C4_DefaultNeverVary ==
    (Called /\ req.origin = Null /\ options = Obj([k \in {} |-> Undefined])) =>
        (IsHeader(ACAO, <<"*">>) /\ ~Has("Vary"))

\* C4, amended: without an Origin header and without options, the result
\* has Access-Control-Allow-Origin: *, Vary never lists Origin, and Vary is
\* present only on a preflight that carries a non-empty
\* Access-Control-Request-Headers, where it is exactly that name.
C4_DefaultVaryOnlyRequestHeaders ==
    (Called /\ req.origin = Null /\ options = Obj([k \in {} |-> Undefined])) =>
        /\ IsHeader(ACAO, <<"*">>)
        /\ ~VaryHas("Origin")
        /\ Has("Vary") <=> (Preflight /\ Truthy(req.acrh))
        /\ Has("Vary") => res.headers["Vary"] = <<ACRH>>

\* A default-options preflight without Origin that asks for headers.
C4_Witness ==
    /\ Called /\ req.origin = Null /\ options = Obj([k \in {} |-> Undefined])
    /\ Preflight /\ Truthy(req.acrh)
    /\ IsHeader(ACAO, <<"*">>)

\* The configured allowedMethods, joined with commas in the given order.
ConfiguredMethods ==
    LET m == Get(Merged, "allowedMethods")
    IN  IF m.t = "arr" THEN Join(m.v) ELSE IF m.t = "str" THEN m.v ELSE <<>>

PreflightOnly == {ACAM, ACAH, ACMA, "Content-Length"}

\* C5 as stated: a request that is not OPTIONS never gets a preflight-only
\* header; an OPTIONS request whose resolved origin rule is not false gets
\* Content-Length: 0 and, with non-empty allowedMethods, the configured
\* methods joined with commas.
C5_PreflightUnlessFalse ==
    /\ (Returned /\ ~Preflight) => \A h \in PreflightOnly : ~Has(h)
    /\ (Called /\ ~NestedCallback /\ Preflight /\ Rule # Bool(FALSE)) =>
          /\ IsHeader("Content-Length", <<"0">>)
          /\ ConfiguredMethods # <<>> => IsHeader(ACAM, ConfiguredMethods)

\* C5, amended: the same, for OPTIONS requests whose resolved origin rule
\* is neither false nor the empty string.
C5_PreflightWhenEnabled ==
    /\ (Returned /\ ~Preflight) => \A h \in PreflightOnly : ~Has(h)
    /\ (Called /\ ~NestedCallback /\ Preflight
            /\ Rule # Bool(FALSE) /\ Rule # Str(<<>>)) =>
          /\ IsHeader("Content-Length", <<"0">>)
          /\ ConfiguredMethods # <<>> => IsHeader(ACAM, ConfiguredMethods)

\* A lower-case options request answered with the configured method list.
C5_Witness ==
    /\ Called /\ req.method = <<"o", "p", "t", "i", "o", "n", "s">>
    /\ Rule = Str(<<"c">>)
    /\ IsHeader(ACAM, <<"FOO", ",", "bar">>)
    /\ IsHeader("Content-Length", <<"0">>)

\* C6: cors() throws iff the origin callback of the merged options returns
\* a function; every other call returns a header collection.
C6_ThrowsIffNestedCallback ==
    Called => /\ Threw <=> NestedCallback
              /\ ~Threw => Returned

\* A call that threw because the origin callback returned a callback.
C6_Witness == Threw /\ NestedCallback /\ options.t = "obj"

\* C7: a call with the request and the options value of the call before it
\* has the same outcome.
C7_Idempotent == [][req' = req => res' = res]_vars

\* C8: no call changes the caller's options value or anything nested in it.
C8_OptionsUnchanged == [][options' = options]_vars

\* Whether the allowed headers of the last call were reflected from a
\* non-empty Access-Control-Request-Headers.
ReflectedHeaders ==
    /\ ~Truthy(Joined(Get(Merged, "allowedHeaders")))
    /\ Truthy(req.acrh)
    /\ IsHeader(ACAH, req.acrh.v)

\* C9: on a preflight under a non-wildcard origin rule whose allowed headers
\* are reflected from the request, Vary is exactly
\* "Origin, Access-Control-Request-Headers".
C9_VaryAccumulates ==
    (Called /\ ~NestedCallback /\ Preflight
        /\ Rule # Str(<<"*">>) /\ (Rule.t = "str" \/ Reflecting)
        /\ ReflectedHeaders) =>
        IsHeader("Vary", <<"Origin", ", ", ACRH>>)

\* A preflight under a list rule that rejects the origin and reflects the
\* requested headers.
C9_Witness ==
    /\ Called /\ Preflight /\ Rule.t = "arr" /\ ~Has(ACAO)
    /\ ReflectedHeaders
    /\ IsHeader("Vary", <<"Origin", ", ", ACRH>>)

EmptyAllowedHeaders == Get(Merged, "allowedHeaders") \in {Arr(<<>>), Str(<<>>)}

ConfiguredHeaders ==
    LET h == Get(Merged, "allowedHeaders")
    IN  IF h.t = "arr" THEN Join(h.v) ELSE IF h.t = "str" THEN h.v ELSE <<>>

\* What C11 says of a preflight: unset allowedHeaders reflect the request's
\* Access-Control-Request-Headers, configured ones are answered as they are.
AllowedHeadersAsClaimed ==
    /\ (Get(Merged, "allowedHeaders") = Undefined /\ Truthy(req.acrh)) =>
          (IsHeader(ACAH, req.acrh.v) /\ VaryHas(ACRH))
    /\ (Get(Merged, "allowedHeaders") = Undefined /\ req.acrh = Null) =>
          (~Has(ACAH) /\ ~VaryHas(ACRH))
    /\ ConfiguredHeaders # <<>> =>
          (IsHeader(ACAH, ConfiguredHeaders) /\ ~VaryHas(ACRH))

\* C11 as stated: on a preflight whose resolved origin rule is not false,
\* unset allowedHeaders reflect the requested headers (with a Vary entry)
\* and configured ones are answered as configured (without one).
C11_AllowedHeadersUnlessFalse ==
    (Called /\ ~NestedCallback /\ Preflight /\ Rule # Bool(FALSE)) =>
        AllowedHeadersAsClaimed

\* C11, amended: the same, on a preflight whose resolved origin rule is
\* neither false nor the empty string.
C11_AllowedHeadersWhenEnabled ==
    (Called /\ ~NestedCallback /\ Preflight
        /\ Rule # Bool(FALSE) /\ Rule # Str(<<>>)) =>
        AllowedHeadersAsClaimed

\* A preflight that asks for headers and is answered with the configured
\* list instead.
C11_Witness ==
    /\ Called /\ Preflight /\ Rule = Str(<<"c">>)
    /\ Truthy(req.acrh)
    /\ IsHeader(ACAH, <<"FIZZ", ",", "buzz">>)
    /\ IsHeader("Vary", <<"Origin">>)

DigitValue(c) ==
    CASE c = "0" -> 0 [] c = "1" -> 1 [] c = "2" -> 2 [] c = "3" -> 3
      [] c = "4" -> 4 [] c = "5" -> 5 [] c = "6" -> 6 [] c = "7" -> 7
      [] c = "8" -> 8 [] c = "9" -> 9 [] OTHER -> -1

RECURSIVE DecimalValue(_)
\* The number a sequence of digits denotes.
DecimalValue(str) ==
    IF Len(str) = 1 THEN DigitValue(str[1])
    ELSE 10 * DecimalValue(SubSeq(str, 1, Len(str) - 1)) + DigitValue(str[Len(str)])

\* Whether str is the decimal string of the natural number n.
IsDecimalOf(str, n) ==
    /\ str # <<>>
    /\ \A i \in DOMAIN str : DigitValue(str[i]) >= 0
    /\ Len(str) > 1 => str[1] # "0"
    /\ DecimalValue(str) = n

\* What C12 says of a preflight: Access-Control-Max-Age is present iff the
\* resolved maxAge is a number, and is then its decimal string.
MaxAgeAsClaimed ==
    LET a == Get(Merged, "maxAge")
    IN  /\ Has(ACMA) <=> a.t = "num"
        /\ a.t = "num" => IsDecimalOf(res.headers[ACMA], a.v)

\* C12 as stated: on a preflight whose resolved origin rule is not false,
\* Access-Control-Max-Age is the decimal string of a numeric maxAge, 0
\* included, and is absent when maxAge is absent or null.
C12_MaxAgeUnlessFalse ==
    (Called /\ ~NestedCallback /\ Preflight /\ Rule # Bool(FALSE)) =>
        (Returned /\ MaxAgeAsClaimed)

\* C12, amended: the same, on a preflight whose resolved origin rule is
\* neither false nor the empty string.
C12_MaxAgeWhenEnabled ==
    (Called /\ ~NestedCallback /\ Preflight
        /\ Rule # Bool(FALSE) /\ Rule # Str(<<>>)) =>
        (Returned /\ MaxAgeAsClaimed)

\* A preflight with maxAge: 0 answered with Access-Control-Max-Age: 0.
C12_Witness ==
    /\ Called /\ Preflight /\ Truthy(Rule)
    /\ Get(Merged, "maxAge") = Num(0)
    /\ IsHeader(ACMA, <<"0">>)

\* The override of the last call: the options object, or what the options
\* callback returns for the request's origin.
Override == IF options.t = "fn" THEN options.ret[req.origin] ELSE options.props

\* The field of the policy C13 describes: the override's when it has one,
\* the default otherwise.
Effective(field) ==
    IF field \in DOMAIN Override THEN Override[field] ELSE Get(defaults, field)

EffectiveRule ==
    IF Effective("origin").t = "fn"
    THEN Effective("origin").ret[req.origin]
    ELSE Effective("origin")

EffectiveMethods ==
    LET m == Effective("allowedMethods")
    IN  IF m.t = "arr" THEN Join(m.v) ELSE IF m.t = "str" THEN m.v ELSE <<>>

\* How many times the last call invoked the callback cb.
Invoked(cb) == Cardinality({i \in DOMAIN invoked : invoked[i].cb = cb})

\* C13: a call invokes the options callback exactly once when options is
\* one, then the origin callback exactly once when the merged origin is
\* one, each with the request's Origin value, and nothing else; the policy
\* it applies has the override's fields over the defaults.
C13_CallbacksOnceAndMerge ==
    Called =>
        /\ Invoked("options") = (IF options.t = "fn" THEN 1 ELSE 0)
        /\ Invoked("origin") = (IF Effective("origin").t = "fn" THEN 1 ELSE 0)
        /\ Len(invoked) = Invoked("options") + Invoked("origin")
        /\ \A i \in DOMAIN invoked : invoked[i].arg = req.origin
        /\ \A i, j \in DOMAIN invoked :
              (invoked[i].cb = "options" /\ invoked[j].cb = "origin") => i < j
        /\ (Returned /\ Truthy(EffectiveRule)) =>
              /\ Has("Access-Control-Allow-Credentials")
                    <=> Truthy(Effective("credentials"))
              /\ Preflight =>
                    IF EffectiveMethods # <<>>
                    THEN IsHeader(ACAM, EffectiveMethods)
                    ELSE ~Has(ACAM)

\* A preflight whose options callback returned an origin callback and
\* credentials, and left the methods to the defaults.
C13_Witness ==
    /\ Returned /\ Preflight
    /\ invoked = <<[cb |-> "options", arg |-> Str(<<"a">>)],
                   [cb |-> "origin", arg |-> Str(<<"a">>)]>>
    /\ IsHeader("Access-Control-Allow-Credentials", <<"true">>)
    /\ IsHeader(ACAM, defaults.allowedMethods.v)
    /\ IsHeader(ACAO, <<"a">>)

\* Whether v, the Access-Control-Allow-Origin of the last call, is one of
\* the three values C14 allows: "*" under the rule "*", the fixed string,
\* or the request's Origin value under a rule that allows it.
AllowOriginSource(v) ==
    \/ v = <<"*">> /\ Rule = Str(<<"*">>)
    \/ Rule.t = "str" /\ Rule # Str(<<"*">>) /\ v = Rule.v
    \/ /\ Reflecting
       /\ req.origin.t = "str" /\ v = req.origin.v
       /\ Allows(Rule, req.origin.v)

\* C14 as stated: Access-Control-Allow-Origin, when present, is "*" under
\* the rule "*", the fixed string, or the request's Origin value under a
\* rule that allows it; and a rule of true, a pattern or a list never
\* produces "*".
C14_AllowOriginNeverStarByReflection ==
    Has(ACAO) =>
        /\ AllowOriginSource(res.headers[ACAO])
        /\ Reflecting => res.headers[ACAO] # <<"*">>

\* C14, amended: Access-Control-Allow-Origin, when present, is "*" under
\* the rule "*", the fixed string, or the request's Origin value under a
\* rule that allows it; a rule of true, a pattern or a list produces "*"
\* only for a request whose own Origin value is "*".
C14_AllowOriginSources ==
    Has(ACAO) =>
        /\ AllowOriginSource(res.headers[ACAO])
        /\ (Reflecting /\ res.headers[ACAO] = <<"*">>) => req.origin = Str(<<"*">>)

\* A list with a "*" item that allows the request's origin by its other
\* item.
C14_Witness ==
    /\ Rule = Arr(<<Str(<<"*">>), Str(<<"a">>)>>)
    /\ req.origin = Str(<<"a">>)
    /\ IsHeader(ACAO, <<"a">>)

====
